---- MODULE Spec2Model ----
(***************************************************************************)
(* Model of cumulus/storage.py: the Cloud Files storage adapter            *)
(* (CloudFilesStorage) and its file handle (CloudFilesStorageFile).        *)
(* Strings are sequences of one-character strings, so that slicing,        *)
(* searching and concatenation are computed as Python computes them.       *)
(***************************************************************************)
EXTENDS Integers, Sequences, FiniteSets, TLC

VARIABLES
    objs,       \* listing: the container's object names, in storage-listing order
    l_path,     \* listing: the path argument of the last full_listdir call
    l_dirs,     \* listing: the directory list it returned
    l_files,    \* listing: the file list it returned
    l_op,       \* listing: "none" or "full_listdir"
    cnames,     \* settings: CUMULUS['CNAMES'], the static alias table
    r_public,   \* remote: for each container, whether it is public
    r_objs,     \* remote: for each container, the names of its objects
    a_container,\* adapter: the _container attribute, or NoAttr
    a_uri,      \* adapter: the _container_public_uri attribute, or NoAttr
    a_checked,  \* history: the containers whose is_public() the adapter called
    a_made,     \* history: the make_public() calls, with what is_public() said
    a_op,       \* adapter: the last operation called
    a_arg,      \* adapter: its argument
    a_remote,   \* adapter: what the remote call of the last operation answered
    a_ret,      \* adapter: what the last operation returned or raised
    a_prev,     \* history: the operation before the last, and its argument
    f_content,  \* remote: the bytes of the handle's object, or NoObject
    f_pos,      \* handle: the _pos attribute (the cursor)
    f_size,     \* handle: the _size attribute as <<size>>, or NoSize
    f_file,     \* handle: whether the _file attribute (the bound object) exists
    f_op,       \* handle: the last operation called
    f_arg,      \* handle: its argument
    f_remote,   \* handle: what its remote call answered, NoCall without one
    f_ret,      \* handle: what the last operation returned or raised
    f_prepos,   \* history: the cursor before the last operation
    f_lookups,  \* history: how often storage.size(name) was invoked
    f_fetched,  \* history: how often storage.size(name) returned a size
    f_late,     \* history: storage.size(name) was invoked with _size present
    f_log,      \* history: the reads since open() or construction, or dirty
    f_two,      \* history: what read(5) then read() on a fresh handle gave
    f_one       \* history: what a single read() on a fresh handle gave

listVars == <<objs, l_path, l_dirs, l_files, l_op>>
adapterVars == <<cnames, r_public, r_objs, a_container, a_uri, a_checked,
                 a_made, a_op, a_arg, a_remote, a_ret, a_prev>>

fileVars == <<f_content, f_pos, f_size, f_file, f_op, f_arg, f_remote, f_ret,
              f_prepos, f_lookups, f_fetched, f_late, f_log, f_two, f_one>>

vars == <<listVars, adapterVars, fileVars>>

\* The listing part of the state while another specification runs.
ListIdle ==
    /\ objs = <<>> /\ l_path = <<>> /\ l_dirs = <<>> /\ l_files = <<>>
    /\ l_op = "none"

(***************************************************************************)
(* Bounds.                                                                 *)
(***************************************************************************)
MaxNameLen == 3     \* longest generated remainder of an object name
MaxObjs == 2        \* most generated objects in the container
MaxContentLen == 6  \* longest remote object content
MaxSeek == 2        \* largest seek() argument
MaxLookups == 2     \* most storage.size(name) invocations followed

(***************************************************************************)
(* Python string primitives.                                               *)
(***************************************************************************)
Min(a, b) == IF a < b THEN a ELSE b
Max(a, b) == IF a > b THEN a ELSE b

\* s[lo:hi] with Python's 0-based, end-exclusive, clipped indices; a
\* negative index counts from the end.
PySlice(s, lo, hi) ==
    LET n == Len(s)
        l == IF lo < 0 THEN Max(n + lo, 0) ELSE Min(lo, n)
        h == IF hi < 0 THEN Max(n + hi, 0) ELSE Min(hi, n)
    IN  IF l >= h THEN <<>> ELSE SubSeq(s, l + 1, h)

\* s.find(c): the 0-based index of the first c in s, or -1.
PyFind(s, c) ==
    IF \E i \in 1..Len(s) : s[i] = c
    THEN (CHOOSE i \in 1..Len(s) : s[i] = c /\ \A j \in 1..(i - 1) : s[j] # c) - 1
    ELSE -1

\* s.endswith('/')
EndsWithSlash(s) == Len(s) > 0 /\ s[Len(s)] = "/"

\* s.startswith(p)
StartsWith(s, p) == Len(s) >= Len(p) /\ SubSeq(s, 1, Len(p)) = p

\* Code points of the characters used, in ASCII order.
CharOrder == <<".", "/", "a", "b", "c", "d", "e", "t", "x">>
Ord(c) == CHOOSE i \in 1..Len(CharOrder) : CharOrder[i] = c

\* Python's str comparison s < t.
RECURSIVE StrLess(_, _)
StrLess(s, t) ==
    IF t = <<>> THEN FALSE
    ELSE IF s = <<>> THEN TRUE
    ELSE IF Ord(Head(s)) # Ord(Head(t)) THEN Ord(Head(s)) < Ord(Head(t))
    ELSE StrLess(Tail(s), Tail(t))

\* list(S) followed by .sort()
RECURSIVE SortedList(_)
SortedList(S) ==
    IF S = {} THEN <<>>
    ELSE LET m == CHOOSE x \in S : \A y \in S \ {x} : StrLess(x, y)
         IN  <<m>> \o SortedList(S \ {m})

(***************************************************************************)
(* The remote container's listing.                                         *)
(***************************************************************************)
\* container.list_objects(prefix=p): the names that start with p, in order.
list_objects(listing, p) == SelectSeq(listing, LAMBDA n : StartsWith(n, p))

(***************************************************************************)
(* CloudFilesStorage.full_listdir                                          *)
(***************************************************************************)
\* if path and not path.endswith('/'): path = '%s/' % path
NormPath(path) ==
    IF path # <<>> /\ ~EndsWithSlash(path) THEN path \o <<"/">> ELSE path

\* Variant: the search runs over the whole name, not name[1:-1].
slash_nostrip(name) == PyFind(name, "/") + 1
\* slash = name[1:-1].find('/') + 1
slash(name) == PyFind(PySlice(name, 1, -1), "/") + 1

\* Variant: the entry keeps the '/' (name[:slash + 1]).
dir_entry_incl(name) == PySlice(name, 0, slash(name) + 1)
\* name[:slash]
dir_entry(name) == PySlice(name, 0, slash(name))

\* The loop body over the listed names, from the i-th on: acc = [dirs, files].
RECURSIVE listdir_loop(_, _, _, _)
listdir_loop(listed, path_len, i, acc) ==
    IF i > Len(listed) THEN acc
    ELSE LET name == PySlice(listed[i], path_len, Len(listed[i]))
         IN  IF slash(name) # 0
             THEN listdir_loop(listed, path_len, i + 1,
                      [acc EXCEPT !.dirs = @ \cup {dir_entry(name)}])
             ELSE IF name # <<>>
             THEN listdir_loop(listed, path_len, i + 1,
                      [acc EXCEPT !.files = Append(@, name)])
             ELSE listdir_loop(listed, path_len, i + 1, acc)

full_listdir(listing, path) ==
    LET p == NormPath(path)
        r == listdir_loop(list_objects(listing, p), Len(p), 1,
                          [dirs |-> {}, files |-> <<>>])
    IN  [dirs |-> SortedList(r.dirs), files |-> r.files]

(***************************************************************************)
(* The remote service as the adapter sees it.                              *)
(***************************************************************************)
NoAttr == "NoAttr"              \* hasattr(self, ...) is false
Containers == {"c1", "c2"}
container_name == "c1"          \* self.container_name
ObjNames == {"n1", "n2"}
\* container.public_uri()
public_uri(c) == IF c = "c1" THEN "u1" ELSE "u2"

NotFound == 404
\* Statuses other than 404 that a failing remote call can answer.
OtherStatuses == {401, 500}

Ok == [kind |-> "ok"]
NoSuchObject == [kind |-> "NoSuchObject"]
ResponseError(status) == [kind |-> "ResponseError", status |-> status]
Failures == {ResponseError(st) : st \in OtherStatuses}

\* What container.delete_object(name) can answer.
delete_object(present) ==
    (IF present THEN {Ok} ELSE {ResponseError(NotFound)}) \cup Failures
\* What container.get_object(name) can answer.
get_object(present) ==
    (IF present THEN {Ok} ELSE {NoSuchObject}) \cup Failures
\* What cloud_obj.send(content) can answer.
send == {Ok} \cup Failures

Return(v) == [kind |-> "return", val |-> v]
Raise(e) == [kind |-> "raise", exc |-> e]
None == "None"
NoCall == [kind |-> "none"]

(***************************************************************************)
(* CloudFilesStorage: the container property and the public base URL.      *)
(* The operators map an adapter state A (its attributes, the containers'   *)
(* public flags and the call history) to the state after the call.         *)
(***************************************************************************)
Adapter ==
    [container |-> a_container, uri |-> a_uri, public |-> r_public,
     checked |-> a_checked, made |-> a_made]

\* Variant: the container is stored without being made public.
set_container_nomake(A, c) ==
    [A EXCEPT !.checked = @ \cup {c}, !.uri = NoAttr, !.container = c]
\* _set_container
set_container(A, c) ==
    LET A1 == [A EXCEPT !.checked = @ \cup {c}]
        A2 == IF ~A1.public[c]
              THEN [A1 EXCEPT !.public = [@ EXCEPT ![c] = TRUE],
                              !.made = @ \cup {[c |-> c, was_public |-> A1.public[c]]}]
              ELSE A1
    IN  [A2 EXCEPT !.uri = NoAttr, !.container = c]

\* _get_container: the state after reading self.container
get_container(A) ==
    IF A.container = NoAttr THEN set_container(A, container_name) ELSE A

\* CUMULUS['CNAMES'][uri] when the table is non-empty and holds uri
cname_lookup(uri) ==
    IF DOMAIN cnames # {} /\ uri \in DOMAIN cnames THEN cnames[uri] ELSE uri

\* _get_container_url: the state after reading self.container_url; the
\* value returned is its uri attribute.
get_container_url(A) ==
    LET A1 == IF A.uri = NoAttr
              THEN LET A0 == get_container(A)
                   IN  [A0 EXCEPT !.uri = public_uri(A0.container)]
              ELSE A
    IN  [A1 EXCEPT !.uri = cname_lookup(@)]

\* '%s/%s' % (base, name)
url_format(base, name) == <<base, "/", name>>

Commit(A) ==
    /\ a_container' = A.container
    /\ a_uri' = A.uri
    /\ r_public' = A.public
    /\ a_checked' = A.checked
    /\ a_made' = A.made

(***************************************************************************)
(* CloudFilesStorage: delete, exists, _save.                               *)
(***************************************************************************)
\* Variant: every ResponseError is swallowed.
delete_swallow_all(resp) == Return(None)
\* delete: the except clause
delete_result(resp) ==
    IF resp.kind = "ResponseError"
    THEN IF resp.status = NotFound THEN Return(None) ELSE Raise(resp)
    ELSE Return(None)

\* Variant: every error is answered False.
exists_catch_all(resp) == IF resp.kind = "ok" THEN Return(TRUE) ELSE Return(FALSE)
\* exists: the try and its except clause
exists_result(resp) ==
    IF resp.kind = "ok" THEN Return(TRUE)
    ELSE IF resp.kind = "NoSuchObject" THEN Return(FALSE)
    ELSE Raise(resp)

\* _save: returns the name once send() has returned
save_result(resp, name) == IF resp.kind = "ok" THEN Return(name) ELSE Raise(resp)

(***************************************************************************)
(* CloudFilesStorageFile: the file handle.                                 *)
(* The remote object's read(size, offset) is taken to answer the bytes     *)
(* from offset on, at most size of them when size > 0 and all of them      *)
(* otherwise, as the keywords of the call in read() name them.             *)
(***************************************************************************)
NoObject == <<-1>>              \* the container holds no object of that name
NoSize == <<>>                  \* hasattr(self, '_size') is false
NoBytes == <<>>                 \* read() without num_bytes (None)

\* cloud_obj.read(size=size, offset=offset)
object_read(content, size, offset) ==
    IF size > 0 THEN PySlice(content, offset, offset + size)
    ELSE PySlice(content, offset, Len(content))

\* What cloud_obj.read(...) can answer.
object_read_resp == {Ok} \cup Failures

\* __init__: self._pos = 0; File.__init__(file=None) binds nothing
file_init == [pos |-> 0, size |-> NoSize, file |-> FALSE]

Handle == [pos |-> f_pos, size |-> f_size, file |-> f_file]

\* num_bytes or -1
size_arg(num_bytes) ==
    IF num_bytes = NoBytes \/ num_bytes[1] = 0 THEN -1 ELSE num_bytes[1]

\* Variant: the cursor is left where it was.
read_noadvance(H, data) == H
\* self._pos += len(data)
read_advance(H, data) == [H EXCEPT !.pos = @ + Len(data)]

\* _get_file: binds the object on the first access
get_file(H, resp) == IF ~H.file /\ resp.kind = "ok" THEN [H EXCEPT !.file = TRUE] ELSE H

\* _set_file(None)
set_file_none(H) == [H EXCEPT !.file = FALSE]

\* open: self._pos = 0
file_open(H) == [H EXCEPT !.pos = 0]

\* Variant: close() also drops the bound object.
close_detach(H) == [H EXCEPT !.pos = 0, !.file = FALSE]
\* close: self._pos = 0
file_close(H) == [H EXCEPT !.pos = 0]

\* seek: self._pos = pos
file_seek(H, pos) == [H EXCEPT !.pos = pos]

\* closed: not hasattr(self, '_file')
closed(H) == ~H.file

\* Variant: the size is looked up on every read of it.
always_lookup(H) == TRUE
\* _get_size: not hasattr(self, '_size')
needs_lookup(H) == H.size = NoSize

\* _get_size: self._size = self._storage.size(self.name)
size_store(H, v) == [H EXCEPT !.size = <<v>>]

\* _set_size
set_size(H, v) == [H EXCEPT !.size = <<v>>]

CommitHandle(H) ==
    /\ f_pos' = H.pos
    /\ f_size' = H.size
    /\ f_file' = H.file

(***************************************************************************)
(* The adapter's specification.                                            *)
(***************************************************************************)
\* Alias tables of the settings: none, plain, and one whose alias is a key.
CnameTables ==
    { <<>>,
      [u \in {"u1"} |-> "x1"],
      [u \in {"u1", "u2"} |-> IF u = "u1" THEN "x1" ELSE "x2"],
      [u \in {"u1", "x1"} |-> IF u = "u1" THEN "x1" ELSE "x2"] }

\* The reads made since the cursor was reset by open() or by construction;
\* dirty once something else moved the cursor or a third read was made.
FreshLog == [dirty |-> FALSE, reads |-> <<>>]
DirtyLog == [dirty |-> TRUE, reads |-> <<>>]

FileIdle ==
    /\ f_content = NoObject /\ f_pos = 0 /\ f_size = NoSize /\ f_file = FALSE
    /\ f_op = "none" /\ f_arg = <<>> /\ f_remote = NoCall /\ f_ret = NoCall
    /\ f_prepos = 0 /\ f_lookups = 0 /\ f_fetched = 0 /\ f_late = FALSE
    /\ f_log = FreshLog /\ f_two = <<>> /\ f_one = <<>>

AdapterIdle ==
    /\ cnames = <<>>
    /\ r_public = [c \in Containers |-> TRUE]
    /\ r_objs = [c \in Containers |-> {}]
    /\ a_container = NoAttr /\ a_uri = NoAttr
    /\ a_checked = {} /\ a_made = {}
    /\ a_op = "none" /\ a_arg = None /\ a_remote = NoCall /\ a_ret = NoCall
    /\ a_prev = [op |-> "none", arg |-> None]

InitAdapter ==
    /\ ListIdle /\ FileIdle
    /\ cnames \in CnameTables
    /\ r_public \in [Containers -> BOOLEAN]
    /\ r_objs = [c \in Containers |-> {}]
    /\ a_container = NoAttr /\ a_uri = NoAttr
    /\ a_checked = {} /\ a_made = {}
    /\ a_op = "none" /\ a_arg = None /\ a_remote = NoCall /\ a_ret = NoCall
    /\ a_prev = [op |-> "none", arg |-> None]

\* storage.container = c
SetContainer ==
    \E c \in Containers :
        /\ Commit(set_container(Adapter, c))
        /\ a_op' = "set_container" /\ a_arg' = c
        /\ a_prev' = [op |-> a_op, arg |-> a_arg]
        /\ a_remote' = NoCall /\ a_ret' = NoCall
        /\ UNCHANGED <<cnames, r_objs, listVars, fileVars>>

\* storage.container_url
ContainerUrl ==
    LET A == get_container_url(Adapter)
    IN  /\ Commit(A)
        /\ a_op' = "container_url" /\ a_arg' = None
        /\ a_prev' = [op |-> a_op, arg |-> a_arg]
        /\ a_remote' = NoCall /\ a_ret' = Return(A.uri)
        /\ UNCHANGED <<cnames, r_objs, listVars, fileVars>>

\* storage.url(name)
Url ==
    \E name \in ObjNames :
        LET A == get_container_url(Adapter)
        IN  /\ Commit(A)
            /\ a_op' = "url" /\ a_arg' = name
            /\ a_prev' = [op |-> a_op, arg |-> a_arg]
            /\ a_remote' = NoCall /\ a_ret' = Return(url_format(A.uri, name))
            /\ UNCHANGED <<cnames, r_objs, listVars, fileVars>>

\* storage._save(name, content)
Save ==
    \E name \in ObjNames :
        LET A == get_container(Adapter) IN
        \E resp \in send :
            /\ Commit(A)
            /\ r_objs' = IF resp.kind = "ok"
                         THEN [r_objs EXCEPT ![A.container] = @ \cup {name}]
                         ELSE r_objs
            /\ a_op' = "save" /\ a_arg' = name
            /\ a_prev' = [op |-> a_op, arg |-> a_arg]
            /\ a_remote' = resp /\ a_ret' = save_result(resp, name)
            /\ UNCHANGED <<cnames, listVars, fileVars>>

\* storage.delete(name)
Delete ==
    \E name \in ObjNames :
        LET A == get_container(Adapter) IN
        \E resp \in delete_object(name \in r_objs[A.container]) :
            /\ Commit(A)
            /\ r_objs' = IF resp.kind = "ok"
                         THEN [r_objs EXCEPT ![A.container] = @ \ {name}]
                         ELSE r_objs
            /\ a_op' = "delete" /\ a_arg' = name
            /\ a_prev' = [op |-> a_op, arg |-> a_arg]
            /\ a_remote' = resp /\ a_ret' = delete_result(resp)
            /\ UNCHANGED <<cnames, listVars, fileVars>>

\* storage.exists(name)
Exists ==
    \E name \in ObjNames :
        LET A == get_container(Adapter) IN
        \E resp \in get_object(name \in r_objs[A.container]) :
            /\ Commit(A)
            /\ a_op' = "exists" /\ a_arg' = name
            /\ a_prev' = [op |-> a_op, arg |-> a_arg]
            /\ a_remote' = resp /\ a_ret' = exists_result(resp)
            /\ UNCHANGED <<cnames, r_objs, listVars, fileVars>>

NextAdapter ==
    \/ SetContainer
    \/ ContainerUrl
    \/ Url
    \/ Save
    \/ Delete
    \/ Exists

SpecAdapter == InitAdapter /\ [][NextAdapter]_vars

(***************************************************************************)
(* The file handle's specification.                                        *)
(***************************************************************************)
\* Remote objects: none, or bytes tagged with their position.
Contents == {[i \in 1..n |-> i] : n \in 0..MaxContentLen}
\* num_bytes of the first of two chunked reads
FirstChunk == <<5>>
ReadArgs == {NoBytes, <<0>>, <<1>>, FirstChunk}
SetSizes == {0, 99}

InitFile ==
    /\ ListIdle /\ AdapterIdle
    /\ f_content \in Contents \cup {NoObject}
    /\ f_pos = 0 /\ f_size = NoSize /\ f_file = FALSE
    /\ f_op = "none" /\ f_arg = <<>> /\ f_remote = NoCall /\ f_ret = NoCall
    /\ f_prepos = 0 /\ f_lookups = 0 /\ f_fetched = 0 /\ f_late = FALSE
    /\ f_log = FreshLog /\ f_two = <<>> /\ f_one = <<>>

HandleExists == f_op # "none"
FileRest == <<listVars, adapterVars, f_content>>

\* storage._open(name): CloudFilesStorageFile(storage=self, name=name)
StorageOpen ==
    /\ ~HandleExists
    /\ CommitHandle(file_init)
    /\ f_op' = "_open" /\ f_arg' = <<>> /\ f_remote' = NoCall /\ f_ret' = NoCall
    /\ f_prepos' = f_pos
    /\ UNCHANGED <<f_lookups, f_fetched, f_late, f_log, f_two, f_one, FileRest>>

\* handle.read(num_bytes)
Read ==
    /\ HandleExists
    /\ \E num_bytes \in ReadArgs :
       \E got \in (IF f_file THEN {Ok} ELSE get_object(f_content # NoObject)) :
       \E resp \in object_read_resp :
          LET H1 == get_file(Handle, got)
              ok == got.kind = "ok" /\ resp.kind = "ok"
              data == object_read(f_content, size_arg(num_bytes), H1.pos)
              H2 == IF ok THEN read_advance(H1, data) ELSE H1
              fresh == f_log = FreshLog
              entry == [arg |-> num_bytes, data |-> data]
              log == IF f_log.dirty \/ Len(f_log.reads) >= 2 THEN DirtyLog
                     ELSE [f_log EXCEPT !.reads = Append(@, entry)]
          IN  /\ (got.kind # "ok" => resp = Ok)
              /\ CommitHandle(H2)
              /\ f_op' = "read" /\ f_arg' = num_bytes
              /\ f_remote' = IF got.kind = "ok" THEN resp ELSE got
              /\ f_ret' = IF ok THEN Return(data)
                          ELSE Raise(IF got.kind = "ok" THEN resp ELSE got)
              /\ f_prepos' = f_pos
              /\ f_log' = IF ok THEN log ELSE f_log
              /\ f_one' = IF ok /\ fresh /\ num_bytes = NoBytes
                          THEN <<[data |-> data, pos |-> H2.pos]>> ELSE f_one
              /\ f_two' = IF ok /\ ~f_log.dirty /\ Len(f_log.reads) = 1
                              /\ f_log.reads[1].arg = FirstChunk /\ num_bytes = NoBytes
                          THEN <<[data |-> f_log.reads[1].data \o data,
                                  pos |-> H2.pos]>>
                          ELSE f_two
              /\ UNCHANGED <<f_lookups, f_fetched, f_late, FileRest>>

\* handle.open()
Open ==
    /\ HandleExists
    /\ CommitHandle(file_open(Handle))
    /\ f_op' = "open" /\ f_arg' = <<>> /\ f_remote' = NoCall /\ f_ret' = Return(None)
    /\ f_prepos' = f_pos
    /\ f_log' = FreshLog
    /\ UNCHANGED <<f_lookups, f_fetched, f_late, f_two, f_one, FileRest>>

\* handle.close()
Close ==
    /\ HandleExists
    /\ CommitHandle(file_close(Handle))
    /\ f_op' = "close" /\ f_arg' = <<>> /\ f_remote' = NoCall /\ f_ret' = Return(None)
    /\ f_prepos' = f_pos
    /\ f_log' = DirtyLog
    /\ UNCHANGED <<f_lookups, f_fetched, f_late, f_two, f_one, FileRest>>

\* handle.seek(pos)
Seek ==
    /\ HandleExists
    /\ \E pos \in 0..MaxSeek :
          /\ CommitHandle(file_seek(Handle, pos))
          /\ f_arg' = <<pos>>
    /\ f_op' = "seek" /\ f_remote' = NoCall /\ f_ret' = Return(None)
    /\ f_prepos' = f_pos
    /\ f_log' = DirtyLog
    /\ UNCHANGED <<f_lookups, f_fetched, f_late, f_two, f_one, FileRest>>

\* handle.file = None
Detach ==
    /\ HandleExists
    /\ CommitHandle(set_file_none(Handle))
    /\ f_op' = "detach" /\ f_arg' = <<>> /\ f_remote' = NoCall /\ f_ret' = NoCall
    /\ f_prepos' = f_pos
    /\ UNCHANGED <<f_lookups, f_fetched, f_late, f_log, f_two, f_one, FileRest>>

\* handle.size read: _get_size, and storage.size(name) under it
GetSize ==
    /\ HandleExists
    /\ IF ~needs_lookup(Handle)
       THEN /\ CommitHandle(Handle)
            /\ f_remote' = NoCall /\ f_ret' = Return(f_size[1])
            /\ UNCHANGED <<f_lookups, f_fetched, f_late>>
       ELSE /\ f_lookups < MaxLookups
            /\ \E got \in get_object(f_content # NoObject) :
                  LET H == IF got.kind = "ok"
                           THEN size_store(Handle, Len(f_content)) ELSE Handle
                  IN  /\ CommitHandle(H)
                      /\ f_remote' = got
                      /\ f_ret' = IF got.kind = "ok" THEN Return(Len(f_content))
                                  ELSE Raise(got)
                      /\ f_lookups' = f_lookups + 1
                      /\ f_fetched' = IF got.kind = "ok" THEN f_fetched + 1
                                      ELSE f_fetched
                      /\ f_late' = (f_late \/ f_size # NoSize)
    /\ f_op' = "get_size" /\ f_arg' = <<>>
    /\ f_prepos' = f_pos
    /\ UNCHANGED <<f_log, f_two, f_one, FileRest>>

\* handle.size = v
SetSize ==
    /\ HandleExists
    /\ \E v \in SetSizes :
          /\ CommitHandle(set_size(Handle, v))
          /\ f_arg' = <<v>>
    /\ f_op' = "set_size" /\ f_remote' = NoCall /\ f_ret' = NoCall
    /\ f_prepos' = f_pos
    /\ UNCHANGED <<f_lookups, f_fetched, f_late, f_log, f_two, f_one, FileRest>>

NextFile ==
    \/ StorageOpen
    \/ Read
    \/ Open
    \/ Close
    \/ Seek
    \/ Detach
    \/ GetSize
    \/ SetSize

SpecFile == InitFile /\ [][NextFile]_vars

(***************************************************************************)
(* Inputs of the listing specification.                                    *)
(***************************************************************************)
NameChars == {"a", "/"}
Strs(n) == UNION {[1..k -> NameChars] : k \in 1..n}
ListPrefix == <<"a", "/">>
\* Names outside the prefix, and the prefix itself (an empty remainder).
OutsideKeys == {<<"a">>, <<"/">>, <<"/", "a">>, <<"a", "a">>, ListPrefix}
\* Object names: every short remainder under the prefix a/, and the others.
Keys == OutsideKeys \cup {ListPrefix \o s : s \in Strs(MaxNameLen)}
Listings ==
    {l \in UNION {[1..k -> Keys] : k \in 0..MaxObjs} :
        \A i, j \in 1..Len(l) : i # j => l[i] # l[j]}
ExampleListing ==
    << <<"a", ".", "t", "x", "t">>,
       <<"b", "/", "c", ".", "t", "x", "t">>,
       <<"b", "/", "d", "/", "e", ".", "t", "x", "t">> >>
Paths == {<<>>, <<"a">>, ListPrefix, <<"b">>}

InitList ==
    /\ AdapterIdle /\ FileIdle
    /\ objs \in Listings \cup {ExampleListing}
    /\ l_path = <<>> /\ l_dirs = <<>> /\ l_files = <<>>
    /\ l_op = "none"

FullListdir ==
    \E path \in Paths :
        LET r == full_listdir(objs, path)
        IN  /\ l_path' = path
            /\ l_dirs' = r.dirs
            /\ l_files' = r.files
            /\ l_op' = "full_listdir"
            /\ UNCHANGED objs
            /\ UNCHANGED <<adapterVars, fileVars>>

NextList == FullListdir

SpecList == InitList /\ [][NextList]_vars

(***************************************************************************)
(* Properties of full_listdir, stated on the remainders themselves.        *)
(***************************************************************************)
Range(f) == {f[i] : i \in DOMAIN f}

\* The listed names with the normalized prefix stripped, in listing order.
Remainders ==
    LET p == NormPath(l_path)
        listed == list_objects(objs, p)
    IN  [i \in 1..Len(listed) |-> SubSeq(listed[i], Len(p) + 1, Len(listed[i]))]

\* Positions of a '/' strictly after the first and before the last character.
InnerSlashes(r) == {q \in 2..(Len(r) - 1) : r[q] = "/"}
FirstInner(r) == CHOOSE q \in InnerSlashes(r) : \A k \in InnerSlashes(r) : q <= k

Str_b == <<"b">>
Str_b_slash == <<"b", "/">>
Str_a_txt == <<"a", ".", "t", "x", "t">>

\* C3 as stated: the directory list holds, for every remainder with an inner
\* '/', the remainder up to AND INCLUDING its first inner '/'; the example
\* listing at the root gives dirs ["b/"], files ["a.txt"].
C3_AsStated ==
    l_op = "full_listdir" =>
        /\ \A i \in DOMAIN Remainders :
              InnerSlashes(Remainders[i]) # {} =>
                SubSeq(Remainders[i], 1, FirstInner(Remainders[i])) \in Range(l_dirs)
        /\ (objs = ExampleListing /\ l_path = <<>>) =>
              (l_dirs = <<Str_b_slash>> /\ l_files = <<Str_a_txt>>)

\* C3 amended: the directory list holds, for every remainder with an inner
\* '/', the remainder up to but EXCLUDING its first inner '/'; the example
\* listing at the root gives dirs ["b"], files ["a.txt"].
C3_DirsExcludeSlash ==
    l_op = "full_listdir" =>
        /\ \A i \in DOMAIN Remainders :
              InnerSlashes(Remainders[i]) # {} =>
                SubSeq(Remainders[i], 1, FirstInner(Remainders[i]) - 1) \in Range(l_dirs)
        /\ (objs = ExampleListing /\ l_path = <<>>) =>
              (l_dirs = <<Str_b>> /\ l_files = <<Str_a_txt>>)

C3_Witness ==
    /\ l_op = "full_listdir" /\ objs = ExampleListing /\ l_path = <<>>
    /\ l_dirs = <<Str_b>> /\ l_files = <<Str_a_txt>>

\* C4: the file list is exactly the non-empty remainders without an inner
\* '/', in listing order; every directory entry comes from a remainder that
\* has an inner '/', so those remainders and the empty ones add no directory.
IsFileRemainder(r) == r # <<>> /\ InnerSlashes(r) = {}
C4_FilesAreNoInnerSlash ==
    l_op = "full_listdir" =>
        /\ l_files = SelectSeq(Remainders, IsFileRemainder)
        /\ \A d \in Range(l_dirs) :
              \E i \in DOMAIN Remainders :
                 /\ InnerSlashes(Remainders[i]) # {}
                 /\ StartsWith(Remainders[i], d)

\* A listing under a/ with an empty remainder, a one-character name, a name
\* whose only '/' is last, and no directory.
C4_Witness ==
    /\ l_op = "full_listdir" /\ l_path = <<"a">>
    /\ <<>> \in Range(Remainders)
    /\ l_files = << <<"a", "/">> >>
    /\ l_dirs = <<>>

(***************************************************************************)
(* Properties of delete, exists and _save.                                 *)
(***************************************************************************)
Present(name) == a_container # NoAttr /\ name \in r_objs[a_container]
Returned(ret) == ret.kind = "return"

\* C1: delete(n) returns when the remote delete succeeded or answered 404,
\* so a second delete(n) of an object already gone returns; a response
\* error of any other status is raised to the caller as it came.
C1_DeleteSwallowsOnlyNotFound ==
    a_op = "delete" =>
        /\ a_remote.kind = "ok" => Returned(a_ret)
        /\ (a_remote.kind = "ResponseError" /\ a_remote.status = NotFound)
              => Returned(a_ret)
        /\ (a_remote.kind = "ResponseError" /\ a_remote.status # NotFound)
              => a_ret = Raise(a_remote)

\* delete(n) twice in a row, the second answered 404 and returning.
C1_Witness ==
    /\ a_prev = [op |-> "delete", arg |-> a_arg]
    /\ a_op = "delete" /\ ~Present(a_arg)
    /\ a_remote.kind = "ResponseError" /\ a_remote.status = NotFound
    /\ Returned(a_ret)

\* C2: exists(n) returns a boolean exactly when the remote answered with the
\* object or with "no such object", and then it is whether n is in the
\* container; any other failure is raised. After save(n) returned n is in
\* the container, after delete(n) returned it is not.
C2_ExistsIffPresent ==
    /\ a_op = "exists" =>
          /\ Returned(a_ret) <=> a_remote.kind \in {"ok", "NoSuchObject"}
          /\ Returned(a_ret) => a_ret.val = Present(a_arg)
          /\ ~Returned(a_ret) => a_ret = Raise(a_remote)
    /\ (a_op = "save" /\ Returned(a_ret)) => Present(a_arg)
    /\ (a_op = "delete" /\ Returned(a_ret)) => ~Present(a_arg)

\* exists(n) answering True right after save(n).
C2_Witness ==
    /\ a_prev = [op |-> "save", arg |-> a_arg]
    /\ a_op = "exists" /\ a_ret = Return(TRUE)

(***************************************************************************)
(* Properties of the container and of the public base URL.                 *)
(***************************************************************************)
\* C8: the container the adapter holds had is_public() called on it and is
\* public, in particular whenever url(name) or container_url has returned;
\* a cached base URI exists only with a container held; make_public() was
\* only ever called on a container whose is_public() had answered False.
C8_ContainerPublicBeforeUrl ==
    /\ a_container # NoAttr =>
          (a_container \in a_checked /\ r_public[a_container])
    /\ a_op \in {"url", "container_url"} => a_container # NoAttr
    /\ a_uri # NoAttr => a_container # NoAttr
    /\ \A m \in a_made : ~m.was_public

\* A URL issued from a lazily fetched container that had to be made public.
C8_Witness ==
    /\ a_op = "url" /\ a_prev.op = "none"
    /\ a_container = container_name
    /\ a_made = {[c |-> container_name, was_public |-> FALSE]}

\* The alias table applied once to a URI.
AliasOnce(u) == IF u \in DOMAIN cnames THEN cnames[u] ELSE u

\* C10 as stated: container_url is the held container's public URI with the
\* alias table applied once, whatever was called before, and url(n) is that
\* value + "/" + n.
C10_AsStated ==
    /\ a_op = "container_url" =>
          a_ret = Return(AliasOnce(public_uri(a_container)))
    /\ a_op = "url" =>
          a_ret = Return(<<AliasOnce(public_uri(a_container)), "/", a_arg>>)

(***************************************************************************)
(* Properties of the file handle.                                          *)
(***************************************************************************)
\* C5: on a freshly opened handle, the two chunks of read(5) then read()
\* concatenate to what a single read() on a freshly opened handle returns,
\* and both leave the cursor at the same offset.
C5_TwoChunksEqualOneRead ==
    (f_two # <<>> /\ f_one # <<>>) => f_two = f_one

\* Both readings done on an object longer than the first chunk.
C5_Witness ==
    /\ f_two # <<>> /\ f_one # <<>>
    /\ Len(f_one[1].data) > FirstChunk[1]

\* C6 as stated: a read with num_bytes given (0 included) returns at most
\* num_bytes bytes, the ones at the cursor, and moves the cursor by their
\* number.
C6_AsStated ==
    (f_op = "read" /\ Returned(f_ret) /\ f_arg # NoBytes) =>
        /\ Len(f_ret.val) <= f_arg[1]
        /\ f_ret.val = SubSeq(f_content, f_prepos + 1, f_prepos + Len(f_ret.val))
        /\ f_pos = f_prepos + Len(f_ret.val)

\* C7 as stated: storage.size(name) is invoked at most once for the handle,
\* never with a size already set, and a size read returns the stored value.
C7_AsStated ==
    /\ f_lookups <= 1
    /\ ~f_late
    /\ (f_op = "get_size" /\ Returned(f_ret)) => f_size = <<f_ret.val>>

\* C7 amended: storage.size(name) returns a size at most once for the handle
\* and is never invoked with a size already fetched or set; a lookup that
\* raises stores nothing (so the next size read invokes it again), and every
\* size read made with a size stored returns that size without a lookup.
C7_FetchedAtMostOnce ==
    /\ [](f_fetched <= 1 /\ ~f_late)
    /\ []((f_op = "get_size" /\ Returned(f_ret)) => f_size = <<f_ret.val>>)
    /\ [][(f_op' = "get_size" /\ ~Returned(f_ret')) => (f_size = NoSize /\ f_size' = NoSize)]_vars
    /\ [][(f_size # NoSize /\ f_op' = "get_size") =>
            (f_ret' = Return(f_size[1]) /\ f_lookups' = f_lookups /\ f_size' = f_size)]_vars

\* A size read served from the stored size after one failed and one
\* successful lookup.
C7_Witness ==
    /\ f_op = "get_size" /\ f_remote = NoCall /\ Returned(f_ret)
    /\ f_lookups = 2 /\ f_fetched = 1

\* C9: the handle is created without a remote call, with cursor 0 and
\* closed; closed is the absence of the bound object; open() and close() set
\* the cursor to 0 and leave the binding as it is; only read() binds, a
\* read() that returned leaves it bound, and only the detachment unbinds.
C9_HandleStateMachine ==
    /\ [](f_op = "_open" => (f_pos = 0 /\ closed(Handle) /\ f_remote = NoCall))
    /\ [](closed(Handle) <=> ~f_file)
    /\ []((f_op = "read" /\ Returned(f_ret)) => ~closed(Handle))
    /\ [][f_op' \in {"open", "close"} => (f_pos' = 0 /\ f_file' = f_file)]_vars
    /\ [][(~f_file /\ f_file') => f_op' = "read"]_vars
    /\ [][(f_file /\ ~f_file') => f_op' = "detach"]_vars

\* After read() and close(): the cursor back at 0, the object still bound.
C9_Witness ==
    /\ f_op = "close" /\ f_prepos > 0
    /\ f_pos = 0 /\ f_file /\ ~closed(Handle)

====
